---------------------------- MODULE Spec2Model ----------------------------
(***************************************************************************)
(* A model of the luajit Go binding (const.go, state.go): the value stack  *)
(* of a State, the call frames of host functions, coroutine threads and    *)
(* the chunk loader.  Every wrapper of state.go is one action; what the    *)
(* wrapped VM primitive does is taken from the wrapper's documentation.    *)
(***************************************************************************)
EXTENDS Integers, Sequences, FiniteSets, TLC

(* ------------------------------ bounds -------------------------------- *)
\* the deepest value stack of one frame the model explores
MaxStack == 3
\* the number of tables the model creates
MaxTables == 1
\* the longest chunk source, and the largest buffer, the loader is given
MaxSrc == 3
\* the deepest stack the host builds where the loader is explored
MaxLoadStack == 2
\* the deepest stack the host builds where coroutines are explored
MaxCoStack == 2
\* the number of coroutine threads the model spawns
MaxCo == 1
\* the deepest nesting of calls into the VM (Call, Resume)
MaxChain == 2
MaxQueryStack == 2
MaxShareStack == 2
MaxHeight == 10000
MaxCat == 3

(* --------------------------- const.go --------------------------------- *)
Multret == -1
Minstack == 20
Yield == 1
Errrun == 2
Errsyntax == 3
Errmem == 4
Errerr == 5
Registryindex == -10000
Environindex == -10001
Globalsindex == -10002
Tnone == -1
Tnil == 0
Tboolean == 1
Tlightuserdata == 2
Tnumber == 3
Tstring == 4
Ttable == 5
Tfunction == 6
Tuserdata == 7
Tthread == 8

\* the index counted up from the globals
UpvalueindexAbove(i) == Globalsindex + i

Upvalueindex(i) == Globalsindex - i

\* the most values a host function can be registered with
MaxUpvalues == 255

(* ----------------------------- strings -------------------------------- *)
\* A string is a sequence of byte values.  Ch names the bytes the model uses.
Ch == [nul |-> 0, a |-> 97, b |-> 98, c |-> 99, pct |-> 37, v |-> 118, eq |-> 61,
       one |-> 49, sp |-> 32, lbr |-> 91, rbr |-> 93, zero |-> 48, semi |-> 59]

RECURSIVE Concatenate(_)
Concatenate(ss) ==
    IF ss = <<>> THEN <<>> ELSE Head(ss) \o Concatenate(Tail(ss))

\* The length of the longest prefix of s without a NUL byte (C strlen).
RECURSIVE strlen(_)
strlen(s) ==
    IF s = <<>> \/ Head(s) = Ch.nul THEN 0 ELSE 1 + strlen(Tail(s))

\* C.CString copies the bytes and adds a terminating NUL: a C reader of the
\* copy sees the bytes before the first NUL of the Go string.
CString(s) == SubSeq(s, 1, strlen(s))

\* C.GoString reads a C string up to its terminating NUL.
GoString(cs) == SubSeq(cs, 1, strlen(cs))

(* ------------------------- fmt.Sprintf (%v) --------------------------- *)
\* An operand of Sprintf: an int, or a slice of ints ([]interface{}).
IntOp(n) == [k |-> "int", n |-> n, s |-> <<>>]
SliceOp(ns) == [k |-> "slice", n |-> 0, s |-> ns]

\* "%!(EXTRA ", "%!v(MISSING)", "%!(NOVERB)", "[]interface {}", "int"
TxtExtra == <<37, 33, 40, 69, 88, 84, 82, 65, 32>>
TxtMissing == <<37, 33, 118, 40, 77, 73, 83, 83, 73, 78, 71, 41>>
TxtNoverb == <<37, 33, 40, 78, 79, 86, 69, 82, 66, 41>>
TxtSliceType == <<91, 93, 105, 110, 116, 101, 114, 102, 97, 99, 101, 32, 123, 125>>
TxtIntType == <<105, 110, 116>>

\* decimal digits of a natural number
RECURSIVE Itoa(_)
Itoa(n) == IF n < 10 THEN <<Ch.zero + n>> ELSE Itoa(n \div 10) \o <<Ch.zero + (n % 10)>>

RECURSIVE JoinInts(_)
JoinInts(ns) ==
    IF ns = <<>> THEN <<>>
    ELSE IF Len(ns) = 1 THEN Itoa(ns[1])
    ELSE Itoa(ns[1]) \o <<Ch.sp>> \o JoinInts(Tail(ns))

\* the %v form of an operand
FmtV(o) == IF o.k = "int" THEN Itoa(o.n) ELSE <<Ch.lbr>> \o JoinInts(o.s) \o <<Ch.rbr>>
FmtType(o) == IF o.k = "int" THEN TxtIntType ELSE TxtSliceType

\* the operands no verb consumed: "type=value, type=value"
RECURSIVE FmtExtra(_)
FmtExtra(ops) ==
    IF ops = <<>> THEN <<>>
    ELSE FmtType(ops[1]) \o <<Ch.eq>> \o FmtV(ops[1])
         \o (IF Len(ops) = 1 THEN <<>> ELSE <<44, Ch.sp>> \o FmtExtra(Tail(ops)))

\* fmt.Sprintf for formats made of plain bytes, %v and %%.
RECURSIVE Sprintf(_, _)
Sprintf(format, ops) ==
    IF format = <<>>
    THEN IF ops = <<>> THEN <<>> ELSE TxtExtra \o FmtExtra(ops) \o <<41>>
    ELSE IF Head(format) # Ch.pct
    THEN <<Head(format)>> \o Sprintf(Tail(format), ops)
    ELSE IF Len(format) = 1
    THEN TxtNoverb \o Sprintf(<<>>, ops)
    ELSE IF format[2] = Ch.pct
    THEN <<Ch.pct>> \o Sprintf(Tail(Tail(format)), ops)
    ELSE IF ops = <<>>
    THEN TxtMissing \o Sprintf(Tail(Tail(format)), ops)
    ELSE FmtV(Head(ops)) \o Sprintf(Tail(Tail(format)), Tail(ops))

RECURSIVE IntOps(_)
IntOps(ns) == IF ns = <<>> THEN <<>> ELSE <<IntOp(Head(ns))>> \o IntOps(Tail(ns))

(* ------------------------------ values -------------------------------- *)
\* A stack slot: the type tag of const.go and a payload (a tuple of numbers).
Val(t, v) == [t |-> t, v |-> v]
NilV == Val(Tnil, <<>>)
BoolV(b) == Val(Tboolean, <<IF b THEN 1 ELSE 0>>)
NumV(n) == Val(Tnumber, <<n>>)
StrV(s) == Val(Tstring, s)
TableV(id) == Val(Ttable, <<id>>)
ThreadV(id) == Val(Tthread, <<id>>)
\* a host function (Gofunction) registered with the interpreter
GoFnV == Val(Tfunction, <<0>>)
\* the Lua function compiled from the chunk with the given bytes
ChunkFnV(bytes) == Val(Tfunction, <<1>> \o bytes)

\* The message the VM leaves on the stack with an error: one string for
\* each error code ("run", "mem", "syn"); its text plays no part.
MsgRun == StrV(<<114, 117, 110>>)
MsgMem == StrV(<<109, 101, 109>>)
MsgSyntax == StrV(<<115, 121, 110>>)

(* ------------------------------- state -------------------------------- *)
VARIABLES
    threads,    \* thread id -> [live, frames, status, life, res]
    chain,      \* the threads the VM has entered (Call or Resume), innermost last
    globals,    \* the table of globals all threads of the root share
    ntables,    \* the number of tables created so far
    panicked,   \* an error left the VM with no protected boundary around it
    last        \* the most recent call of the host: operation, inputs, result

vars == <<threads, chain, globals, ntables, panicked, last>>

\* The root State is thread 0; MaxCo coroutine threads can be spawned.
Main == 0
ThreadIds == 0..MaxCo
GlobalNames == {"a", "b"}

\* A frame: its value stack, how it was entered ("base": the thread's own
\* stack, "call", "resume", "yielded": a suspended body), the number of
\* results its caller asked for.
Frame(stack, how, nres) == [stack |-> stack, how |-> how, nres |-> nres]
BaseFrame(stack) == Frame(stack, "base", 0)

\* the frame the operations on thread t act on
Depth(t) == Len(threads[t].frames)
Cur(t) == threads[t].frames[Depth(t)]
Stk(t) == Cur(t).stack

\* Gettop: the index of the top element, the number of elements of the stack
Gettop(t) == Len(Stk(t))

\* Status: the status of the thread
Status(t) == threads[t].status

Range(f) == {f[i] : i \in DOMAIN f}
Running == IF chain = <<>> THEN -1 ELSE chain[Len(chain)]

\* Any host code operates on any thread, whichever is running.
ActsAnyThread(t) ==
    /\ ~panicked
    /\ threads[t].live

\* The host code in control operates on thread t: a host function the VM
\* called works on the thread it runs in, the code outside the VM on any.
Acts(t) ==
    /\ ~panicked
    /\ threads[t].live
    /\ (Running = t \/ chain = <<>>)

\* the last n elements of a sequence, and all but the last n
LastN(s, n) == SubSeq(s, Len(s) - n + 1, Len(s))
DropN(s, n) == SubSeq(s, 1, Len(s) - n)
\* new slots that are not cleared: they hold a value left behind
StaleSlots(n) == [i \in 1..n |-> BoolV(FALSE)]

Nils(n) == [i \in 1..n |-> NilV]

\* The position an acceptable index names on a stack of the given height
\* (0 when it names no element).
AbsIndex(top, index) ==
    IF index > 0 THEN (IF index <= top THEN index ELSE 0)
    ELSE IF index < 0 /\ -index <= top THEN top + 1 + index
    ELSE 0

\* the value at an index: nil where the index names no element
ValueAt(t, index) ==
    IF index = Globalsindex THEN TableV(0)
    ELSE IF AbsIndex(Gettop(t), index) = 0 THEN NilV
    ELSE Stk(t)[AbsIndex(Gettop(t), index)]

\* a Go error value: nil, or an error with its message
NoError == [nil |-> TRUE, msg |-> ""]
Errorf(msg) == [nil |-> FALSE, msg |-> msg]

\* the record of a call, kept for the properties
Rec(op, t, i, j, s, a, ok, ret) ==
    [op |-> op, th |-> t, pre |-> Stk(t), i |-> i, j |-> j, s |-> s, a |-> a,
     ok |-> ok, ret |-> ret, err |-> NoError, k |-> "", st |-> Status(t)]

WithStack(t, stack) ==
    [threads EXCEPT ![t].frames[Depth(t)].stack = stack]

(* ------------------------------ errors -------------------------------- *)
\* The highest frame of t entered by Resume, 0 when there is none.
ResumeFrame(t) ==
    LET fs == {f \in 1..Depth(t) : threads[t].frames[f].how = "resume"}
    IN IF fs = {} THEN 0 ELSE CHOOSE f \in fs : \A g \in fs : g <= f

\* An error raised in thread t (lua_error, a longjmp).  It unwinds to the
\* Resume that runs t, which returns the error code: the thread is marked
\* with the code, its stack is not unwound, the message is on top.  With no
\* Resume around it the error leaves the VM: the host cannot go on.
Throw(t, code, msg) ==
    IF Running = t /\ ResumeFrame(t) > 0
    THEN /\ threads' = [threads EXCEPT
                ![t].frames = <<BaseFrame(Append(Stk(t), msg))>>,
                ![t].status = code,
                ![t].life = "errored",
                ![t].res = code]
         /\ chain' = SubSeq(chain, 1, Len(chain) - (Depth(t) - ResumeFrame(t) + 1))
         /\ panicked' = FALSE
    ELSE /\ panicked' = TRUE
         /\ UNCHANGED <<threads, chain>>

(* ------------------------- push operations ---------------------------- *)
\* lua_push*: one more slot on top of the stack of t, holding v.
Push(t, v, rec) ==
    /\ Acts(t)
    /\ Gettop(t) < MaxStack
    /\ threads' = WithStack(t, Append(Stk(t), v))
    /\ last' = rec
    /\ UNCHANGED <<chain, globals, ntables, panicked>>

Pushnil(t) == Push(t, NilV, Rec("Pushnil", t, 0, 0, <<>>, <<>>, TRUE, 0))

Pushboolean(t, b) ==
    Push(t, IF b THEN BoolV(TRUE) ELSE BoolV(FALSE),
         Rec("Pushboolean", t, IF b THEN 1 ELSE 0, 0, <<>>, <<>>, TRUE, 0))

Pushinteger(t, n) == Push(t, NumV(n), Rec("Pushinteger", t, n, 0, <<>>, <<>>, TRUE, 0))

Pushnumber(t, n) == Push(t, NumV(n), Rec("Pushnumber", t, n, 0, <<>>, <<>>, TRUE, 0))

\* lua_pushstring reads the C copy of str up to its first NUL byte.
Pushstring(t, str) ==
    Push(t, StrV(CString(str)), Rec("Pushstring", t, 0, 0, str, <<>>, TRUE, 0))

\* str := fmt.Sprintf(format, v): the slice v is passed as ONE operand.
Pushfstring(t, format, v) ==
    LET str == Sprintf(format, <<SliceOp(v)>>)
    IN Push(t, StrV(CString(str)), Rec("Pushfstring", t, 0, 0, format, v, TRUE, 0))

\* the index is an acceptable one: not 0, and not below the bottom of the stack
Pushvalue(t, index) ==
    /\ index # 0
    /\ index < 0 => (-index <= Gettop(t) \/ index = Globalsindex)
    /\ Push(t, ValueAt(t, index), Rec("Pushvalue", t, index, 0, <<>>, <<>>, TRUE, 0))

\* returns 1 if the thread is the main thread of its state
Pushthread(t) ==
    Push(t, ThreadV(t),
         Rec("Pushthread", t, 0, 0, <<>>, <<>>, TRUE, IF t = Main THEN 1 ELSE 0))

\* lua_createtable allocates: without memory it raises Errmem.
Createtable(t, narr, nrec, mem) ==
    /\ ntables < MaxTables
    /\ IF mem
       THEN /\ Acts(t)
            /\ Gettop(t) < MaxStack
            /\ threads' = WithStack(t, Append(Stk(t), TableV(ntables + 1)))
            /\ ntables' = ntables + 1
            /\ last' = Rec("Createtable", t, narr, nrec, <<>>, <<>>, TRUE, 0)
            /\ UNCHANGED <<chain, globals, panicked>>
       ELSE /\ Acts(t)
            /\ Throw(t, Errmem, MsgMem)
            /\ last' = Rec("Createtable", t, narr, nrec, <<>>, <<>>, FALSE, Errmem)
            /\ UNCHANGED <<globals, ntables>>

Newtable(t, mem) == Createtable(t, 0, 0, mem)

(* --------------------------- Settop and Pop --------------------------- *)
\* lua_settop: index >= 0 is the new top (new slots are nil); index < 0 is
\* relative to the top, -1 naming the top element.
lua_settop(t, index, rec) ==
    LET top == Gettop(t)
        new == IF index >= 0 THEN index ELSE top + 1 + index
    IN /\ Acts(t)
       /\ new >= 0
       /\ new <= MaxHeight
       /\ threads' = WithStack(t,
              IF new <= top THEN SubSeq(Stk(t), 1, new)
              ELSE Stk(t) \o Nils(new - top))
       /\ last' = rec
       /\ UNCHANGED <<chain, globals, ntables, panicked>>

\* Settop.  The VM keeps Minstack slots ready; for a top above them it has
\* to allocate the slots (mem: the allocation succeeds) and raises a memory
\* error when it cannot.
Settop(t, index, mem) ==
    IF index > Minstack /\ index > Gettop(t) /\ ~mem
    THEN /\ Acts(t)
         /\ Throw(t, Errmem, MsgMem)
         /\ last' = Rec("Settop", t, index, 0, <<>>, <<>>, FALSE, Errmem)
         /\ UNCHANGED <<globals, ntables>>
    ELSE lua_settop(t, index, Rec("Settop", t, index, 0, <<>>, <<>>, TRUE, 0))

\* (mutant) Pop that forgets that -1 names the top element
PopNoShift(t, index) ==
    lua_settop(t, -index, Rec("Pop", t, index, 0, <<>>, <<>>, TRUE, 0))

Pop(t, index) ==
    lua_settop(t, -index - 1, Rec("Pop", t, index, 0, <<>>, <<>>, TRUE, 0))

(* ------------------------ functions and calls ------------------------- *)
\* lua_pushcfunction: pushes a host function (a closure with no upvalues).
Pushgofunction(t) ==
    Push(t, GoFnV, Rec("Pushgofunction", t, 0, 0, <<>>, <<>>, TRUE, 0))

\* The number of results is adjusted to nresults, unless nresults is Multret.
Adjust(res, nresults) ==
    IF nresults = Multret THEN res
    ELSE [i \in 1..nresults |-> IF i <= Len(res) THEN res[i] ELSE NilV]

\* The chunks the model compiles are assignments of a number to the global
\* a (a=1, a=11, a=1;): running one sets the global and returns no value.
RECURSIVE Digits(_)
Digits(bytes) ==
    IF bytes = <<>> THEN 0
    ELSE 10 * Digits(SubSeq(bytes, 1, Len(bytes) - 1)) + (bytes[Len(bytes)] - Ch.zero)

ChunkValue(fn) ==
    LET code == Tail(fn.v)
        body == IF code[Len(code)] = Ch.semi THEN SubSeq(code, 3, Len(code) - 1)
                ELSE SubSeq(code, 3, Len(code))
    IN NumV(Digits(body))

RunChunk(fn) == [globals EXCEPT !["a"] = ChunkValue(fn)]

\* Call as a call that leaves the function under the results.
CallKeepsFunction(t, nargs, nresults) ==
    LET f == Stk(t)[Gettop(t) - nargs]
        args == LastN(Stk(t), nargs)
        below == DropN(Stk(t), nargs)
    IN /\ Acts(t)
       /\ nargs + 1 <= Gettop(t)
       /\ IF f.t # Tfunction
          THEN /\ Throw(t, Errrun, MsgRun)
               /\ last' = Rec("Call", t, nargs, nresults, <<>>, <<>>, FALSE, Errrun)
               /\ UNCHANGED <<globals, ntables>>
          ELSE IF f = GoFnV
          THEN /\ Len(chain) < MaxChain
               /\ threads' = [threads EXCEPT ![t].frames =
                      Append([@ EXCEPT ![Depth(t)].stack = below],
                             Frame(args, "call", nresults))]
               /\ chain' = Append(chain, t)
               /\ last' = Rec("Call", t, nargs, nresults, <<>>, <<>>, TRUE, 0)
               /\ UNCHANGED <<globals, ntables, panicked>>
          ELSE /\ Len(below \o Adjust(<<>>, nresults)) <= MaxStack
               /\ threads' = WithStack(t, below \o Adjust(<<>>, nresults))
               /\ globals' = RunChunk(f)
               /\ last' = Rec("CallChunk", t, nargs, nresults, <<>>, <<>>, TRUE, 0)
               /\ UNCHANGED <<chain, ntables, panicked>>

\* Call: the function and its nargs arguments are popped; a host function
\* starts on a stack holding its arguments; an error inside is propagated
\* upwards (a longjmp).
Call(t, nargs, nresults) ==
    LET f == Stk(t)[Gettop(t) - nargs]
        args == LastN(Stk(t), nargs)
        below == DropN(Stk(t), nargs + 1)
    IN /\ Acts(t)
       /\ nargs + 1 <= Gettop(t)
       /\ IF f.t # Tfunction
          THEN /\ Throw(t, Errrun, MsgRun)
               /\ last' = Rec("Call", t, nargs, nresults, <<>>, <<>>, FALSE, Errrun)
               /\ UNCHANGED <<globals, ntables>>
          ELSE IF f = GoFnV
          THEN /\ Len(chain) < MaxChain
               /\ threads' = [threads EXCEPT ![t].frames =
                      Append([@ EXCEPT ![Depth(t)].stack = below],
                             Frame(args, "call", nresults))]
               /\ chain' = Append(chain, t)
               /\ last' = Rec("Call", t, nargs, nresults, <<>>, <<>>, TRUE, 0)
               /\ UNCHANGED <<globals, ntables, panicked>>
          ELSE /\ Len(below \o Adjust(<<>>, nresults)) <= MaxStack
               /\ threads' = WithStack(t, below \o Adjust(<<>>, nresults))
               /\ globals' = RunChunk(f)
               /\ last' = Rec("CallChunk", t, nargs, nresults, <<>>, <<>>, TRUE, 0)
               /\ UNCHANGED <<chain, ntables, panicked>>

\* A host function returns r: the top r values of its stack are its results.
\* Called with Call, the results (adjusted) go on top of the caller's stack;
\* as the body of a coroutine, the Resume that ran it returns 0 with them.
Return(t, r) ==
    LET fs == threads[t].frames
        res == LastN(Stk(t), r)
    IN /\ ~panicked
       /\ Running = t
       /\ Cur(t).how \in {"call", "resume"}
       /\ r <= Gettop(t)
       /\ Len(fs[Depth(t) - 1].stack) + Len(Adjust(res, Cur(t).nres)) <= MaxStack
       /\ chain' = DropN(chain, 1)
       /\ UNCHANGED <<globals, ntables, panicked>>
       /\ IF Cur(t).how = "call"
          THEN /\ threads' = [threads EXCEPT ![t].frames =
                      Append(DropN(fs, 2),
                             [fs[Depth(t) - 1] EXCEPT
                                 !.stack = @ \o Adjust(res, Cur(t).nres)])]
               /\ last' = Rec("Return", t, r, Cur(t).nres, fs[Depth(t) - 1].stack, <<>>, TRUE, 0)
          ELSE /\ threads' = [threads EXCEPT
                      ![t].frames = <<BaseFrame(fs[1].stack \o res)>>,
                      ![t].status = 0,
                      ![t].life = "dead",
                      ![t].res = 0]
               /\ last' = Rec("ReturnBody", t, r, 0, fs[1].stack, <<>>, TRUE, 0)

(* ----------------------------- coroutines ----------------------------- *)
\* Spawns a thread: a new thread value on the stack of t.
Newthread(t) ==
    LET free == {u \in ThreadIds : ~threads[u].live}
        new == CHOOSE u \in free : \A w \in free : u <= w
    IN /\ Acts(t)
       /\ free # {}
       /\ Gettop(t) < MaxStack
       /\ threads' = [WithStack(t, Append(Stk(t), ThreadV(new))) EXCEPT ![new].live = TRUE]
       /\ last' = Rec("Newthread", t, new, 0, <<>>, <<>>, TRUE, 0)
       /\ UNCHANGED <<chain, globals, ntables, panicked>>

\* Resume: starts or continues the coroutine in thread t with narg arguments.
\*  - a thread the VM is executing, or one that ended with an error, is not
\*    resumed: the message replaces its stack and Resume returns Errrun;
\*  - a suspended thread continues: the host function that yielded returns
\*    the narg values, so its body ends and Resume returns 0;
\*  - any other thread (status 0) starts the function below the arguments.
Resume(t, narg) ==
    LET st == Stk(t)
        life == threads[t].life
        rec(ok, ret) == Rec("Resume", t, narg, 0, <<>>, <<life>>, ok, ret)
    IN /\ ~panicked
       /\ threads[t].live
       /\ narg <= Gettop(t)
       /\ UNCHANGED <<ntables, panicked>>
       /\ IF t \in Range(chain) \/ Status(t) > Yield
          THEN /\ threads' = [WithStack(t, <<MsgRun>>) EXCEPT ![t].res = Errrun]
               /\ last' = [rec(FALSE, Errrun) EXCEPT !.k = "rejected"]
               /\ UNCHANGED <<chain, globals>>
          ELSE IF Status(t) = Yield
          THEN /\ Len(threads[t].frames[1].stack) + narg <= MaxStack
               /\ threads' = [threads EXCEPT
                      ![t].frames = <<BaseFrame(threads[t].frames[1].stack \o LastN(st, narg))>>,
                      ![t].status = 0,
                      ![t].life = "dead",
                      ![t].res = 0]
               /\ last' = rec(TRUE, 0)
               /\ UNCHANGED <<chain, globals>>
          ELSE IF Gettop(t) = narg \/ st[Gettop(t) - narg].t # Tfunction
          THEN /\ threads' = [threads EXCEPT
                      ![t].frames = <<BaseFrame(Append(st, MsgRun))>>,
                      ![t].status = Errrun,
                      ![t].life = "errored",
                      ![t].res = Errrun]
               /\ last' = rec(FALSE, Errrun)
               /\ UNCHANGED <<chain, globals>>
          ELSE IF st[Gettop(t) - narg] = GoFnV
          THEN /\ Len(chain) < MaxChain
               /\ threads' = [threads EXCEPT
                      ![t].frames = <<BaseFrame(DropN(st, narg + 1)),
                                      Frame(LastN(st, narg), "resume", Multret)>>,
                      ![t].life = "running"]
               /\ chain' = Append(chain, t)
               /\ last' = rec(TRUE, -1)
               /\ UNCHANGED globals
          ELSE /\ threads' = [threads EXCEPT
                      ![t].frames = <<BaseFrame(DropN(st, narg + 1))>>,
                      ![t].life = "dead",
                      ![t].res = 0]
               /\ globals' = RunChunk(st[Gettop(t) - narg])
               /\ last' = rec(TRUE, 0)
               /\ UNCHANGED chain

\* Yield as a yield that does not mark the thread as suspended.
YieldKeepsStatus(t, nresults) ==
    /\ Acts(t)
    /\ nresults <= Gettop(t)
    /\ UNCHANGED <<globals, ntables>>
    /\ IF Running = t /\ Cur(t).how = "resume"
       THEN /\ threads' = [threads EXCEPT
                   ![t].frames = <<threads[t].frames[1],
                                   Frame(LastN(Stk(t), nresults), "yielded", 0)>>,
                   ![t].life = "suspended",
                   ![t].res = Yield]
            /\ chain' = DropN(chain, 1)
            /\ last' = Rec("Yield", t, nresults, 0, <<>>, <<>>, TRUE, Yield)
            /\ UNCHANGED panicked
       ELSE /\ Throw(t, Errrun, MsgRun)
            /\ last' = Rec("Yield", t, nresults, 0, <<>>, <<>>, FALSE, Errrun)

\* Yield, as the return expression of a host function: the running coroutine
\* suspends with the top nresults values as its stack, and the Resume that
\* started it returns Yield.  Anywhere but in the body of a running
\* coroutine the VM raises an error.
\* (State.Yield: the name Yield is the status constant of const.go.)
StateYield(t, nresults) ==
    /\ Acts(t)
    /\ nresults <= Gettop(t)
    /\ UNCHANGED <<globals, ntables>>
    /\ IF Running = t /\ Cur(t).how = "resume"
       THEN /\ threads' = [threads EXCEPT
                   ![t].frames = <<threads[t].frames[1],
                                   Frame(LastN(Stk(t), nresults), "yielded", 0)>>,
                   ![t].status = Yield,
                   ![t].life = "suspended",
                   ![t].res = Yield]
            /\ chain' = DropN(chain, 1)
            /\ last' = Rec("Yield", t, nresults, 0, <<>>, <<>>, TRUE, Yield)
            /\ UNCHANGED panicked
       ELSE /\ Throw(t, Errrun, MsgRun)
            /\ last' = Rec("Yield", t, nresults, 0, <<>>, <<>>, FALSE, Errrun)

(* ---------------------------- chunk loader ---------------------------- *)
\* errmsgs with one message for two statuses
errmsgsShared ==
    (Errrun :> "run time error") @@ (Errsyntax :> "syntax error")
    @@ (Errmem :> "run time error") @@ (Errerr :> "error in error handling")

errmsgs ==
    (Errrun :> "run time error") @@ (Errsyntax :> "syntax error")
    @@ (Errmem :> "out of memory") @@ (Errerr :> "error in error handling")

\* a Go map yields the zero value for a key it does not hold
MapGet(m, k) == IF k \in DOMAIN m THEN m[k] ELSE ""

\* err2msg with its test of errnum the wrong way round
err2msgInverted(errnum) ==
    IF errnum # 0 THEN NoError ELSE Errorf(MapGet(errmsgs, errnum))

err2msg(errnum) ==
    IF errnum = 0 THEN NoError ELSE Errorf(MapGet(errmsgs, errnum))

Min(x, y) == IF x <= y THEN x ELSE y

\* (*bytes.Reader).Read on the reader r = [s, i]: at the end of s it
\* reports io.EOF, otherwise it copies up to leng bytes and advances.
Read(r, leng) ==
    IF r.i >= Len(r.s)
    THEN [n |-> 0, err |-> TRUE, b |-> <<>>, r |-> r]
    ELSE LET n == Min(leng, Len(r.s) - r.i)
         IN [n |-> n, err |-> FALSE, b |-> SubSeq(r.s, r.i + 1, r.i + n),
             r |-> [r EXCEPT !.i = r.i + n]]

\* goreadchunk: reads into the buffer of buflen bytes; 0 on any error.
goreadchunk(reader, buflen) ==
    LET rd == Read(reader, buflen)
    IN IF rd.err THEN [n |-> 0, b |-> <<>>, r |-> rd.r]
       ELSE [n |-> rd.n, b |-> rd.b, r |-> rd.r]

\* The reader callback is invoked until it produces 0 bytes: the pieces.
RECURSIVE ReadPieces(_, _)
ReadPieces(reader, buflen) ==
    LET g == goreadchunk(reader, buflen)
    IN IF g.n = 0 THEN <<>> ELSE <<g.b>> \o ReadPieces(g.r, buflen)

\* a chunk the compiler accepts: a=<digits> with an optional ; at its end
Compiles(code) ==
    LET body == IF code # <<>> /\ code[Len(code)] = Ch.semi
                THEN SubSeq(code, 1, Len(code) - 1) ELSE code
    IN /\ Len(body) >= 3
       /\ body[1] = Ch.a
       /\ body[2] = Ch.eq
       /\ \A k \in 3..Len(body) : body[k] = Ch.one

\* C load: feeds the compiler through the reader callback; the status and
\* the value it leaves on the stack (the function, or a message).
load(reader, bufsize, mem) ==
    LET pieces == ReadPieces(reader, bufsize)
        code == Concatenate(pieces)
    IN IF ~mem THEN [status |-> Errmem, value |-> MsgMem, pieces |-> pieces]
       ELSE IF Compiles(code)
       THEN [status |-> 0, value |-> ChunkFnV(code), pieces |-> pieces]
       ELSE [status |-> Errsyntax, value |-> MsgSyntax, pieces |-> pieces]

\* What goreadchunk finds behind the pointer Load passes.  Load passes the
\* address of chunk, a *io.Reader, and goreadchunk reads it as a
\* *bytes.Reader.  When the caller's pointer is in truth the address of a
\* bytes.Reader ("bytes") that is the reader over src.  When it is the address
\* of an io.Reader interface value, one that delivers src and then ends
\* ("iface") or then reports an error ("failing"), the fields read are the
\* words of the interface value and of the memory after it: the read is
\* undefined, and view is what it finds (an exhausted reader, foreign bytes,
\* or a fault).
Behind(kind, src, view) ==
    IF kind = "bytes" THEN [s |-> src, i |-> 0] ELSE [s |-> view.s, i |-> 0]

Views == {[fault |-> FALSE, s |-> <<>>], [fault |-> FALSE, s |-> <<255>>],
          [fault |-> TRUE, s |-> <<>>]}

\* Load as a loader that also runs the chunk it has compiled.
LoadAndRun(t, kind, src, bufsize, view, mem) ==
    LET r == load(Behind(kind, src, view), bufsize, mem)
        rec(ok) == [Rec("Load", t, bufsize, 0, src, r.pieces, ok, r.status)
                    EXCEPT !.err = err2msg(r.status), !.k = kind]
    IN /\ Acts(t)
       /\ bufsize > 0
       /\ Gettop(t) < MaxStack
       /\ UNCHANGED <<chain, ntables>>
       /\ globals' = IF r.status = 0 /\ ~(kind # "bytes" /\ view.fault)
                     THEN RunChunk(r.value) ELSE globals
       /\ IF kind # "bytes" /\ view.fault
          THEN /\ panicked' = TRUE
               /\ last' = [rec(FALSE) EXCEPT !.a = <<>>, !.ret = 0, !.err = NoError]
               /\ UNCHANGED threads
          ELSE /\ threads' = WithStack(t, Append(Stk(t), r.value))
               /\ last' = rec(TRUE)
               /\ UNCHANGED panicked

\* Load: r := C.load(s.l, chunk, bufsize, chunkname); return err2msg(r).
Load(t, kind, src, bufsize, view, mem) ==
    LET r == load(Behind(kind, src, view), bufsize, mem)
        rec(ok) == [Rec("Load", t, bufsize, 0, src, r.pieces, ok, r.status)
                    EXCEPT !.err = err2msg(r.status), !.k = kind]
    IN /\ Acts(t)
       /\ bufsize > 0
       /\ Gettop(t) < MaxStack
       /\ UNCHANGED <<chain, globals, ntables>>
       /\ IF kind # "bytes" /\ view.fault
          THEN /\ panicked' = TRUE
               /\ last' = [rec(FALSE) EXCEPT !.a = <<>>, !.ret = 0, !.err = NoError]
               /\ UNCHANGED threads
          ELSE /\ threads' = WithStack(t, Append(Stk(t), r.value))
               /\ last' = rec(TRUE)
               /\ UNCHANGED panicked

(* ------------------------- queries and tests -------------------------- *)
\* what a query finds at a position that holds no element
NoneV == Val(Tnone, <<>>)

\* index2adr: the slot an index names on the stack of t.  A positive index
\* above the top names no element.  Index 0 and a negative index below the
\* first element are not checked (the check is an assertion, compiled out):
\* the slot read is top + index, memory outside the stack, and junk is
\* what it holds.
Slot(t, index, junk) ==
    IF index > 0 THEN (IF index <= Gettop(t) THEN Stk(t)[index] ELSE NoneV)
    ELSE IF index > Registryindex
    THEN (IF index # 0 /\ -index <= Gettop(t)
          THEN Stk(t)[Gettop(t) + 1 + index] ELSE junk)
    ELSE IF index \in {Registryindex, Environindex, Globalsindex} THEN TableV(0)
    ELSE NoneV

\* a Go bool as a number
Bool(b) == IF b THEN 1 ELSE 0

\* a call that reads the stack of t and returns: the record holds the result
Query(t, rec) ==
    /\ Acts(t)
    /\ last' = rec
    /\ UNCHANGED <<threads, chain, globals, ntables, panicked>>

\* lua_type
lua_type(t, index, junk) == Slot(t, index, junk).t

Type(t, index, junk) ==
    Query(t, Rec("Type", t, index, 0, <<>>, <<>>, TRUE, lua_type(t, index, junk)))

Isfunction(t, index, junk) ==
    Query(t, Rec("Isfunction", t, index, 0, <<>>, <<>>, TRUE,
                 Bool(lua_type(t, index, junk) = Tfunction)))

Istable(t, index, junk) ==
    Query(t, Rec("Istable", t, index, 0, <<>>, <<>>, TRUE,
                 Bool(lua_type(t, index, junk) = Ttable)))

Islightuserdata(t, index, junk) ==
    Query(t, Rec("Islightuserdata", t, index, 0, <<>>, <<>>, TRUE,
                 Bool(lua_type(t, index, junk) = Tlightuserdata)))

\* lua_iscfunction: a function, and a host function
Isgofunction(t, index, junk) ==
    Query(t, Rec("Isgofunction", t, index, 0, <<>>, <<>>, TRUE,
                 Bool(Slot(t, index, junk) = GoFnV)))

Isnil(t, index, junk) ==
    Query(t, Rec("Isnil", t, index, 0, <<>>, <<>>, TRUE,
                 Bool(lua_type(t, index, junk) = Tnil)))

Isboolean(t, index, junk) ==
    Query(t, Rec("Isboolean", t, index, 0, <<>>, <<>>, TRUE,
                 Bool(lua_type(t, index, junk) = Tboolean)))

Isthread(t, index, junk) ==
    Query(t, Rec("Isthread", t, index, 0, <<>>, <<>>, TRUE,
                 Bool(lua_type(t, index, junk) = Tthread)))

Isnone(t, index, junk) ==
    Query(t, Rec("Isnone", t, index, 0, <<>>, <<>>, TRUE,
                 Bool(lua_type(t, index, junk) = Tnone)))

Isnoneornil(t, index, junk) ==
    Query(t, Rec("Isnoneornil", t, index, 0, <<>>, <<>>, TRUE,
                 Bool(lua_type(t, index, junk) <= 0)))

(* ----------------------------- conversions ---------------------------- *)
\* lua_toboolean: true for every value but nil, false and no value
Toboolean(t, index, junk) ==
    Query(t, Rec("Toboolean", t, index, 0, <<>>, <<>>, TRUE,
                 Bool(Slot(t, index, junk).t \notin {Tnil, Tnone}
                      /\ Slot(t, index, junk) # BoolV(FALSE))))

\* a string the VM reads as a number: decimal digits, at least one
IsNumeral(str) == str # <<>> /\ \A k \in DOMAIN str : str[k] \in Ch.zero..Ch.zero + 9

\* lua_tonumber: the number, the number a string denotes, 0 otherwise
tonumber(v) ==
    IF v.t = Tnumber THEN v.v[1]
    ELSE IF v.t = Tstring /\ IsNumeral(v.v) THEN Digits(v.v)
    ELSE 0

Tonumber(t, index, junk) ==
    Query(t, Rec("Tonumber", t, index, 0, <<>>, <<>>, TRUE,
                 tonumber(Slot(t, index, junk))))

Tointeger(t, index, junk) ==
    Query(t, Rec("Tointeger", t, index, 0, <<>>, <<>>, TRUE,
                 tonumber(Slot(t, index, junk))))

\* the string form pushed on top, the number left where it is
StringifiedOnTop(t, index) ==
    IF AbsIndex(Gettop(t), index) = 0 THEN Stk(t)
    ELSE Append(Stk(t), StrV(Itoa(Stk(t)[AbsIndex(Gettop(t), index)].v[1])))

\* the stack of t after the VM turned the number at the index into a string,
\* in place; a slot outside the stack is not part of it
Stringified(t, index) ==
    IF AbsIndex(Gettop(t), index) = 0 THEN Stk(t)
    ELSE [Stk(t) EXCEPT ![AbsIndex(Gettop(t), index)] = StrV(Itoa(@.v[1]))]

\* a query on a number that needs its string form: the VM allocates the
\* string (mem: the allocation succeeds) and stores it in the slot
Stringify(t, index, mem, rec) ==
    /\ Acts(t)
    /\ IF mem
       THEN /\ threads' = WithStack(t, Stringified(t, index))
            /\ last' = rec
            /\ UNCHANGED <<chain, globals, ntables, panicked>>
       ELSE /\ Throw(t, Errmem, MsgMem)
            /\ last' = [rec EXCEPT !.ok = FALSE, !.ret = Errmem, !.s = <<>>]
            /\ UNCHANGED <<globals, ntables>>

\* lua_tolstring, then C.GoString; "" for a NULL result
Tostring(t, index, junk, mem) ==
    LET v == Slot(t, index, junk)
    IN IF v.t = Tnumber
       THEN Stringify(t, index, mem,
                Rec("Tostring", t, index, 0, GoString(Itoa(v.v[1])), <<>>, TRUE, 1))
       ELSE Query(t, Rec("Tostring", t, index, 0,
                         IF v.t = Tstring THEN GoString(v.v) ELSE <<>>, <<>>, TRUE,
                         Bool(v.t = Tstring)))

\* lua_objlen: the length of a string, of a table (the tables here are empty),
\* of the string form of a number, which it stores in the slot; 0 otherwise
Objlen(t, index, junk, mem) ==
    LET v == Slot(t, index, junk)
    IN IF v.t = Tnumber
       THEN Stringify(t, index, mem,
                Rec("Objlen", t, index, 0, <<>>, <<>>, TRUE, Len(Itoa(v.v[1]))))
       ELSE Query(t, Rec("Objlen", t, index, 0, <<>>, <<>>, TRUE,
                         IF v.t = Tstring THEN Len(v.v) ELSE 0))

Strlen(t, index, junk, mem) == Objlen(t, index, junk, mem)

\* lua_rawequal: false where an index names no element
Rawequal(t, i1, i2, junk) ==
    Query(t, Rec("Rawequal", t, i1, i2, <<>>, <<>>, TRUE,
                 Bool(/\ Slot(t, i1, junk) # NoneV
                      /\ Slot(t, i2, junk) # NoneV
                      /\ Slot(t, i1, junk) = Slot(t, i2, junk))))

\* lua_tothread: the thread at the index (a: its State), nil otherwise
Tothread(t, index, junk) ==
    Query(t, Rec("Tothread", t, index, 0, <<>>,
                 IF Slot(t, index, junk).t = Tthread THEN Slot(t, index, junk).v
                 ELSE <<>>,
                 TRUE, Bool(Slot(t, index, junk).t = Tthread)))

\* Togofunction: returns a function that returns 0, whatever is at the
\* index (ret: the result is not nil)
Togofunction(t, index) ==
    Query(t, Rec("Togofunction", t, index, 0, <<>>, <<>>, TRUE, Bool(TRUE)))

(* -------------------------------- close -------------------------------- *)
\* lua_close has destroyed the VM: the memory of every thread is freed
Closed == threads[Main].life = "closed"

\* A call into the VM through the State of t.  While the VM is open it
\* runs as usual (rec).  The State keeps its pointer after Close and no
\* operation tests it, so a call after Close reads freed memory: it
\* crashes the program or proceeds on what the memory still holds.
IntoVM(t, rec) ==
    /\ ~panicked
    /\ threads[t].live
    /\ IF Closed
       THEN /\ last' = [rec EXCEPT !.k = "freed"]
            /\ \E crash \in BOOLEAN : panicked' = crash
       ELSE /\ Acts(t)
            /\ last' = rec
            /\ UNCHANGED panicked

\* Close: lua_close on the main thread of the VM the State belongs to
Close(t) ==
    /\ IntoVM(t, Rec("Close", t, 0, 0, <<>>, <<>>, TRUE, 0))
    /\ threads' = [u \in ThreadIds |-> [threads[u] EXCEPT !.life = "closed"]]
    /\ UNCHANGED <<chain, globals, ntables>>

\* Gettop as a call: lua_gettop
StateGettop(t) ==
    /\ IntoVM(t, Rec("Gettop", t, 0, 0, <<>>, <<>>, TRUE, Gettop(t)))
    /\ UNCHANGED <<threads, chain, globals, ntables>>

(* --------------------------- between threads --------------------------- *)
\* the values lua_xmove has moved to the other stack, in the order it
\* pushes them there
MovedReversed(stack, n) == [i \in 1..n |-> stack[Len(stack) + 1 - i]]

Moved(stack, n) == LastN(stack, n)

\* Xmove: pops n values from the stack of from and pushes them onto the
\* stack of to; nothing happens when both are the same thread.  The caller
\* provides n values on from (fewer: the VM reads below the stack).
Xmove(to, from, n) ==
    /\ Acts(to)
    /\ threads[from].live
    /\ n \in 0..Gettop(from)
    /\ Gettop(to) + n <= MaxStack
    /\ threads' = IF from = to THEN threads
                  ELSE [WithStack(from, DropN(Stk(from), n)) EXCEPT
                           ![to].frames[Depth(to)].stack = Stk(to) \o Moved(Stk(from), n)]
    /\ last' = Rec("Xmove", to, n, from, <<>>, Stk(from), TRUE, 0)
    /\ UNCHANGED <<chain, globals, ntables, panicked>>

(* ------------------------------- fields -------------------------------- *)
\* Getfield: pushes t[k] for the value t at the index.  The table of globals
\* is the one table whose fields are kept here; indexing a value that is
\* not a table raises an error.
Getfield(t, index, k) ==
    /\ Acts(t)
    /\ Gettop(t) < MaxStack
    /\ IF index = Globalsindex
       THEN /\ threads' = WithStack(t, Append(Stk(t), globals[k]))
            /\ last' = [Rec("Getfield", t, index, 0, <<>>, <<>>, TRUE, 0) EXCEPT !.k = k]
            /\ UNCHANGED <<chain, globals, ntables, panicked>>
       ELSE /\ Slot(t, index, NilV).t # Ttable
            /\ Throw(t, Errrun, MsgRun)
            /\ last' = [Rec("Getfield", t, index, 0, <<>>, <<>>, FALSE, Errrun) EXCEPT !.k = k]
            /\ UNCHANGED <<globals, ntables>>

Getglobal(t, name) == Getfield(t, Globalsindex, name)

\* the stack after a Setfield that stored the value and left it on the stack
SetfieldKeepsValue(t) == Stk(t)

\* the stack after Setfield: the value is popped
AfterSetfield(t) == DropN(Stk(t), 1)

\* Setfield: t[k] = v for the value t at the index and the value v at the
\* top, which it pops (the caller provides it)
Setfield(t, index, k) ==
    /\ Acts(t)
    /\ Gettop(t) >= 1
    /\ IF index = Globalsindex
       THEN /\ threads' = WithStack(t, AfterSetfield(t))
            /\ globals' = [globals EXCEPT ![k] = Stk(t)[Gettop(t)]]
            /\ last' = [Rec("Setfield", t, index, 0, <<>>, <<>>, TRUE, 0) EXCEPT !.k = k]
            /\ UNCHANGED <<chain, ntables, panicked>>
       ELSE /\ Slot(t, index, NilV).t # Ttable
            /\ Throw(t, Errrun, MsgRun)
            /\ last' = [Rec("Setfield", t, index, 0, <<>>, <<>>, FALSE, Errrun) EXCEPT !.k = k]
            /\ UNCHANGED <<globals, ntables>>

Setglobal(t, name) == Setfield(t, Globalsindex, name)

(* -------------------------------- concat ------------------------------- *)
\* the values joined last first
JoinedReversed(vals) ==
    Concatenate([i \in 1..Len(vals) |->
        IF vals[Len(vals) + 1 - i].t = Tnumber THEN Itoa(vals[Len(vals) + 1 - i].v[1])
        ELSE vals[Len(vals) + 1 - i].v])

\* the concatenation of strings and numbers, a number in its string form
Joined(vals) ==
    Concatenate([i \in 1..Len(vals) |->
        IF vals[i].t = Tnumber THEN Itoa(vals[i].v[1]) ELSE vals[i].v])

\* Concat: concatenates the n values at the top, pops them and leaves the
\* result on top; the empty string for n = 0, nothing to do for n = 1.  A
\* value that is neither a string nor a number cannot be concatenated: the
\* VM raises an error.  The caller provides the n values.
Concat(t, n) ==
    LET vals == LastN(Stk(t), n)
        rec(ok, ret) == Rec("Concat", t, n, 0, <<>>, <<>>, ok, ret)
    IN /\ Acts(t)
       /\ n \in 0..Gettop(t)
       /\ Gettop(t) - n + 1 <= MaxStack
       /\ IF n >= 2 /\ \E i \in 1..n : vals[i].t \notin {Tstring, Tnumber}
          THEN /\ Throw(t, Errrun, MsgRun)
               /\ last' = rec(FALSE, Errrun)
               /\ UNCHANGED <<globals, ntables>>
          ELSE /\ threads' = IF n = 1 THEN threads
                             ELSE WithStack(t, Append(DropN(Stk(t), n), StrV(Joined(vals))))
               /\ last' = rec(TRUE, 0)
               /\ UNCHANGED <<chain, globals, ntables, panicked>>

(* ------------------------------ traversal ------------------------------ *)
\* the key a field name is on the stack: a string
KeyOf(name) == StrV(<<Ch[name]>>)

\* every slot of the table walked, those without a value too
FieldsWithEmpty(tab) == <<"a", "b">>

\* The fields of a table in the order the VM walks them: the names that
\* hold a value, in the order of the table's slots.  The order is the VM's
\* own; it is the same from one call to the next while the table is not
\* changed.
Fields(tab) == SelectSeq(<<"a", "b">>, LAMBDA name : tab[name] # NilV)

\* the position of a key among the fields: 0 for nil, -1 for a key that is
\* not one of them
FieldPos(tab, key) ==
    IF key = NilV THEN 0
    ELSE IF \E i \in 1..Len(Fields(tab)) : KeyOf(Fields(tab)[i]) = key
    THEN CHOOSE i \in 1..Len(Fields(tab)) : KeyOf(Fields(tab)[i]) = key
    ELSE -1

\* Next: pops a key and pushes the pair that follows it in the table at the
\* index, or pushes nothing and returns 0 after the last pair; a key the
\* table does not hold raises an error.  The table of globals is the one
\* table whose fields are kept here.  The caller provides the key.
\* (State.Next: the name Next is the next-state relation.)
StateNext(t, index) ==
    LET key == Stk(t)[Gettop(t)]
        pos == FieldPos(globals, key)
        rec(ok, ret) == Rec("Next", t, index, 0, <<>>, <<>>, ok, ret)
    IN /\ Acts(t)
       /\ Gettop(t) >= 1
       /\ index = Globalsindex
       /\ IF pos < 0
          THEN /\ Throw(t, Errrun, MsgRun)
               /\ last' = rec(FALSE, Errrun)
               /\ UNCHANGED <<globals, ntables>>
          ELSE /\ threads' = WithStack(t,
                      IF pos < Len(Fields(globals))
                      THEN DropN(Stk(t), 1)
                           \o <<KeyOf(Fields(globals)[pos + 1]),
                                globals[Fields(globals)[pos + 1]]>>
                      ELSE DropN(Stk(t), 1))
               /\ last' = rec(TRUE, Bool(pos < Len(Fields(globals))))
               /\ UNCHANGED <<chain, globals, ntables, panicked>>

(* --------------------------- specification ---------------------------- *)
NoCall == [op |-> "none", th |-> Main, pre |-> <<>>, i |-> 0, j |-> 0, s |-> <<>>,
           a |-> <<>>, ok |-> TRUE, ret |-> 0, err |-> NoError, k |-> "", st |-> 0]

\* Newstate: the root thread with an empty stack; no coroutine yet.
Newstate ==
    [t \in ThreadIds |->
        [live |-> (t = Main), frames |-> <<BaseFrame(<<>>)>>, status |-> 0,
         life |-> "fresh", res |-> -1]]

Init ==
    /\ threads = Newstate
    /\ chain = <<>>
    /\ globals = [n \in GlobalNames |-> NilV]
    /\ ntables = 0
    /\ panicked = FALSE
    /\ last = NoCall

\* the inputs of the stack operations
Numbers == {1}
Strings == {<<Ch.a>>, <<Ch.a, Ch.nul, Ch.b>>}
Formats == {<<Ch.pct, Ch.v>>}
FmtArgs == {<<>>, <<1>>}
Indices == (-MaxStack..MaxStack) \cup {Globalsindex}

\* The stack protocol on the root State.
Next ==
    \/ Pushnil(Main)
    \/ \E b \in BOOLEAN : Pushboolean(Main, b)
    \/ \E n \in Numbers : Pushinteger(Main, n)
    \/ \E n \in Numbers : Pushnumber(Main, n)
    \/ \E str \in Strings : Pushstring(Main, str)
    \/ \E f \in Formats, v \in FmtArgs : Pushfstring(Main, f, v)
    \/ \E i \in Indices : Pushvalue(Main, i)
    \/ Pushthread(Main)
    \/ \E mem \in BOOLEAN : Createtable(Main, 0, 0, mem)
    \/ \E mem \in BOOLEAN : Newtable(Main, mem)
    \/ \E i \in -MaxStack - 1..MaxStack, mem \in BOOLEAN : Settop(Main, i, mem)
    \/ \E n \in 0..MaxStack : Pop(Main, n)

Spec == Init /\ [][Next]_vars

\* Host functions, calls and coroutines: the root spawns the coroutine
\* threads, and the host works on their stacks.  On the stack of a suspended
\* thread the host only places the values for its Resume: it calls nothing.
CoThreads == 1..MaxCo

\* the height of the stack under the running frame of t
Below(t) == IF Depth(t) > 1 THEN Len(threads[t].frames[Depth(t) - 1].stack) ELSE 0

NextCo ==
    \/ Newthread(Main)
    \/ \E t \in CoThreads :
        \/ Gettop(t) < MaxCoStack /\ Pushgofunction(t)
        \/ Gettop(t) < MaxCoStack /\ Pushnumber(t, 1)
        \/ Pop(t, 1)
        \/ Newtable(t, FALSE)
        \/ /\ Status(t) # Yield
           /\ \E nargs \in 0..1, nresults \in {Multret, 0, 1} : Call(t, nargs, nresults)
        \/ \E r \in 0..2 : Below(t) + r <= MaxCoStack /\ Return(t, r)
        \/ \E narg \in 0..1 : Resume(t, narg)
        \/ \E n \in 0..2 : StateYield(t, n)

SpecCo == Init /\ [][NextCo]_vars

\* Calls of host functions on the root State: the host pushes functions and
\* numbers, calls, and the host functions push, call and return.
NextCall ==
    \/ Pushgofunction(Main)
    \/ \E n \in {0, 1} : Pushnumber(Main, n)
    \/ \E nargs \in 0..2, nresults \in {Multret, 0, 1, 2} : Call(Main, nargs, nresults)
    \/ \E r \in 0..2 : Return(Main, r)

SpecCall == Init /\ [][NextCall]_vars

\* The chunk loader on the root State, and the calls that run a chunk.  The
\* host looks at what a Load left (pops it, calls it) before it loads again.
RECURSIVE SeqsUpTo(_, _)
SeqsUpTo(S, n) ==
    IF n = 0 THEN {<<>>}
    ELSE LET shorter == SeqsUpTo(S, n - 1)
         IN shorter \cup {Append(q, x) : q \in shorter, x \in S}

Sources == SeqsUpTo({Ch.a, Ch.eq, Ch.one}, MaxSrc)

\* what the caller's pointer is, what is found behind it, and whether the
\* compiler has the memory it needs
Pointers ==
    {[kind |-> "bytes", view |-> v, mem |-> m] :
        v \in {w \in Views : w.s = <<>> /\ ~w.fault}, m \in BOOLEAN}
    \cup {[kind |-> k, view |-> v, mem |-> TRUE] :
            k \in {"iface", "failing"}, v \in Views}

NextLoad ==
    \/ /\ Gettop(Main) < MaxLoadStack
       /\ last.op # "Load"
       /\ \E p \in Pointers, src \in Sources, b \in 1..MaxSrc :
             Load(Main, p.kind, src, b, p.view, p.mem)
    \/ Gettop(Main) < MaxLoadStack - 1 /\ Pushnil(Main)
    \/ Call(Main, 0, 0)
    \/ Resume(Main, 0)
    \/ Pop(Main, 1)

SpecLoad == Init /\ [][NextLoad]_vars

\* The queries and conversions on the main thread, over a stack of up to
\* MaxQueryStack values of every kind.
QueryIdx == -MaxQueryStack - 1..MaxQueryStack + 1
\* what a slot outside the stack can hold: a value some earlier operation left
Junk == {NilV, NumV(1), ThreadV(Main)}
\* the contents to tell apart for one index: those of the slot it reads outside
\* the stack, one where it reads none
JunkAt(t, index) ==
    IF index <= 0 /\ AbsIndex(Gettop(t), index) = 0 THEN Junk ELSE {NilV}
QueryStrings == {<<Ch.a>>, <<Ch.one>>}

NextQuery ==
    \/ /\ Gettop(Main) < MaxQueryStack
       /\ \/ Pushnil(Main)
          \/ \E b \in BOOLEAN : Pushboolean(Main, b)
          \/ \E n \in Numbers : Pushnumber(Main, n)
          \/ \E str \in QueryStrings : Pushstring(Main, str)
          \/ Pushthread(Main)
          \/ Pushgofunction(Main)
          \/ Newtable(Main, TRUE)
    \/ \E n \in 1..MaxQueryStack : Pop(Main, n)
    \/ \E i \in QueryIdx : \E junk \in JunkAt(Main, i) :
          \/ Type(Main, i, junk)
          \/ Isfunction(Main, i, junk)
          \/ Istable(Main, i, junk)
          \/ Islightuserdata(Main, i, junk)
          \/ Isgofunction(Main, i, junk)
          \/ Isnil(Main, i, junk)
          \/ Isboolean(Main, i, junk)
          \/ Isthread(Main, i, junk)
          \/ Isnone(Main, i, junk)
          \/ Isnoneornil(Main, i, junk)
          \/ Toboolean(Main, i, junk)
          \/ Tonumber(Main, i, junk)
          \/ Tointeger(Main, i, junk)
          \/ Tothread(Main, i, junk)
          \/ Togofunction(Main, i)
          \/ \E mem \in BOOLEAN : Tostring(Main, i, junk, mem)
          \/ \E mem \in BOOLEAN : Objlen(Main, i, junk, mem)
          \/ \E mem \in BOOLEAN : Strlen(Main, i, junk, mem)
          \/ \E i2 \in 1..MaxQueryStack + 1 : Rawequal(Main, i, i2, junk)

SpecQuery == Init /\ [][NextQuery]_vars

\* A VM with its threads, closed at any moment; the host goes on using the
\* States it holds.
NextClose ==
    \/ /\ ~Closed
       /\ \/ Newthread(Main)
          \/ \E t \in ThreadIds, n \in Numbers : Pushnumber(t, n)
          \/ \E t \in ThreadIds : Pushnil(t)
          \/ \E t \in ThreadIds : Pop(t, 1)
          \/ \E i \in 1..MaxStack : Tothread(Main, i, NilV)
    \/ \E t \in ThreadIds : Close(t)
    \/ \E t \in ThreadIds : StateGettop(t)

SpecClose == Init /\ [][NextClose]_vars

\* The threads of one VM (the main thread and those it spawned), used from
\* outside the VM: values pushed, moved between stacks, stored in globals.
ShareNumbers == {1, 2}

NextShare ==
    \/ Newthread(Main)
    \/ \E t \in ThreadIds :
        \/ /\ Gettop(t) < MaxShareStack
           /\ \/ \E n \in ShareNumbers : Pushnumber(t, n)
              \/ \E name \in GlobalNames : Getglobal(t, name)
              \/ \E name \in GlobalNames : Getfield(t, 1, name)
        \/ Pop(t, 1)
        \/ \E name \in GlobalNames : Setglobal(t, name)
        \/ \E name \in GlobalNames : Setfield(t, 1, name)
        \/ \E from \in ThreadIds, n \in 0..MaxShareStack :
              Gettop(t) + n <= MaxShareStack /\ Xmove(t, from, n)

SpecShare == Init /\ [][NextShare]_vars

\* Coroutines that resume one another: the host resumes a thread, whose
\* body (a host function) resumes the next one, yields or returns.
NextNest ==
    \/ Newthread(Main)
    \/ \E t \in ThreadIds :
        \/ Gettop(t) < MaxCoStack /\ Pushgofunction(t)
        \/ Gettop(t) < MaxCoStack /\ Pushnumber(t, 1)
        \/ Pop(t, 1)
        \/ \E narg \in 0..1 : Resume(t, narg)
        \/ \E n \in 0..1 : StateYield(t, n)
        \/ \E r \in 0..1 : Below(t) + r <= MaxCoStack /\ Return(t, r)

SpecNest == Init /\ [][NextNest]_vars

(* ---------------------------- pseudo-indices --------------------------- *)
\* a call of the package function Upvalueindex: no State takes part
CallUpvalueindex(i) ==
    /\ ~panicked
    /\ last' = [NoCall EXCEPT !.op = "Upvalueindex", !.i = i, !.ret = Upvalueindex(i)]
    /\ UNCHANGED <<threads, chain, globals, ntables, panicked>>

\* Stacks from empty to the tallest, and the pseudo-indices next to them.
Heights == (0..MaxStack) \cup {MaxHeight - 2, MaxHeight - 1, MaxHeight}
UpvalueNumbers == (1..4) \cup (MaxUpvalues - 3..MaxUpvalues)

NextIndex ==
    \/ \E h \in Heights, mem \in BOOLEAN : Settop(Main, h, mem)
    \/ \E i \in UpvalueNumbers : CallUpvalueindex(i)

SpecIndex == Init /\ [][NextIndex]_vars

\* Strings, numbers and nil pushed on the main thread and concatenated; the
\* strings on the stack hold up to MaxCat bytes together.
CatStrings == {<<Ch.a>>, <<Ch.b>>, <<Ch.c>>}

NextConcat ==
    \/ /\ Len(Joined(Stk(Main))) < MaxCat
       /\ \/ \E str \in CatStrings : Pushstring(Main, str)
          \/ \E n \in Numbers : Pushnumber(Main, n)
    \/ Pushnil(Main)
    \/ \E n \in 1..MaxStack : Pop(Main, n)
    \/ \E n \in 0..MaxStack : Concat(Main, n)

SpecConcat == Init /\ [][NextConcat]_vars

\* Settop on a stack of numbers and nils: tops within the stack, above it,
\* and above the slots the VM keeps ready.
SettopIdx == (-MaxStack - 1..MaxStack) \cup {Minstack, Minstack + 1}

NextSettop ==
    \/ Gettop(Main) < MaxStack /\ \E n \in Numbers : Pushnumber(Main, n)
    \/ \E i \in SettopIdx, mem \in BOOLEAN : Settop(Main, i, mem)

SpecSettop == Init /\ [][NextSettop]_vars

\* The statuses err2msg is given: those Load has for it, and every other
\* number from 0 to one above the error codes.
Statuses == 0..Errerr + 1

\* err2msg applied to a status
CallErr2msg(errnum) ==
    /\ ~panicked
    /\ last' = [NoCall EXCEPT !.op = "err2msg", !.i = errnum, !.err = err2msg(errnum)]
    /\ UNCHANGED <<threads, chain, globals, ntables, panicked>>

NextStatus ==
    \/ /\ Gettop(Main) < MaxLoadStack
       /\ last.op # "Load"
       /\ \E p \in Pointers, src \in Sources, b \in 1..MaxSrc :
             Load(Main, p.kind, src, b, p.view, p.mem)
    \/ \E errnum \in Statuses : CallErr2msg(errnum)
    \/ Pop(Main, 1)

SpecStatus == Init /\ [][NextStatus]_vars

\* The documented traversal, on the table of globals: the host fills the
\* table, pushes nil as the first key, and then calls Next and, while it
\* returns a pair, Pop(1).  The table is not changed during the loop.
\* In the loop the stack holds a key (nil or a string) above the numbers
\* the host had pushed.
InLoop == \E i \in 1..Gettop(Main) : Stk(Main)[i].t \in {Tnil, Tstring}

NextTraverse ==
    \/ /\ ~InLoop
       /\ Gettop(Main) < MaxStack - 2
       /\ \E n \in ShareNumbers : Pushnumber(Main, n)
    \/ ~InLoop /\ \E name \in GlobalNames : Setglobal(Main, name)
    \/ ~InLoop /\ Gettop(Main) < MaxStack - 1 /\ Pushnil(Main)
    \/ /\ InLoop
       /\ Stk(Main)[Gettop(Main)].t \in {Tnil, Tstring}
       /\ StateNext(Main, Globalsindex)
    \/ /\ InLoop
       /\ Stk(Main)[Gettop(Main)].t = Tnumber
       /\ Pop(Main, 1)

SpecTraverse == Init /\ [][NextTraverse]_vars

\* the host does not stop in the middle of the loop
SpecTraverseFair == SpecTraverse /\ WF_vars(InLoop /\ NextTraverse)

(* ============================== claims ================================ *)
PushOps == {"Pushnil", "Pushboolean", "Pushinteger", "Pushnumber", "Pushstring",
            "Pushfstring", "Pushvalue", "Pushthread", "Createtable"}

\* the value at a valid index of a stack (nil elsewhere)
AtIndex(stack, index) ==
    IF AbsIndex(Len(stack), index) = 0 THEN NilV
    ELSE stack[AbsIndex(Len(stack), index)]

\* the value a push operation is given to push
Given(c) ==
    CASE c.op = "Pushnil" -> NilV
      [] c.op = "Pushboolean" -> BoolV(c.i = 1)
      [] c.op \in {"Pushinteger", "Pushnumber"} -> NumV(c.i)
      [] c.op = "Pushstring" -> StrV(c.s)
      [] c.op = "Pushfstring" -> StrV(Sprintf(c.s, IntOps(c.a)))
      [] c.op = "Pushvalue" ->
            IF c.i = Globalsindex THEN TableV(0) ELSE AtIndex(c.pre, c.i)
      [] c.op = "Pushthread" -> ThreadV(c.th)
      [] OTHER -> NilV

\* the stack after a push: one more slot, the slots below unchanged
GrewByOne(c) ==
    /\ Gettop(c.th) = Len(c.pre) + 1
    /\ SubSeq(Stk(c.th), 1, Len(c.pre)) = c.pre

\* C1 (as claimed): every push operation that returns leaves Gettop one
\* higher, the given value in the new top slot (for Pushvalue(i) a copy of
\* the value at i) and the slots 1..old top unchanged.
C1_PushHoldsGivenValue ==
    (last.op \in PushOps /\ last.ok) =>
        /\ GrewByOne(last)
        /\ IF last.op = "Createtable"
           THEN Stk(last.th)[Gettop(last.th)].t = Ttable
           ELSE Stk(last.th)[Gettop(last.th)] = Given(last)

\* Pop(n) leaves the stack it found without its top n slots
C2_PopRemovesTopN ==
    (last.op = "Pop" /\ last.i <= Len(last.pre)) =>
        /\ Stk(last.th) = SubSeq(last.pre, 1, Len(last.pre) - last.i)
        /\ Gettop(last.th) = Len(last.pre) - last.i

\* a Pop(1) right after a push puts back the stack the push found
C2_PushThenPop ==
    (last.op \in PushOps /\ last.ok /\ last'.op = "Pop" /\ last'.i = 1
        /\ last'.th = last.th)
    => (threads'[last.th].frames = [threads[last.th].frames EXCEPT
            ![Depth(last.th)].stack = last.pre])

\* C2: Pop(n) with 0 <= n <= Gettop() removes exactly the top n slots, as
\* Settop(-n-1) does, and a Pop(1) right after a push restores the stack
\* the push found.
C2_PushPopInverse == [](C2_PopRemovesTopN) /\ [][C2_PushThenPop]_vars

C2_Witness ==
    /\ last.op = "Pop"
    /\ last.i = 2
    /\ Len(last.pre) = MaxStack
    /\ last.pre[MaxStack].t = Tstring

(* ------------------------------ loader -------------------------------- *)
\* the value on top of the stack of the thread of the last call
Top(c) == Stk(c.th)[Gettop(c.th)]

\* what the loader makes of the bytes src, read in one piece
Contiguous(src) == load([s |-> src, i |-> 0], Len(src) + 1, TRUE)

\* a Load that did not run out of memory
Loaded == last.op = "Load" /\ last.ret # Errmem

\* C6 (as claimed): Load of a valid chunk of L bytes through a buffer of
\* b < L bytes succeeds, the reader callback produces pieces of at most b
\* bytes whose concatenation is the chunk, and the function loaded is the
\* one a buffer of L bytes or more gives.
C6_BufferingTransparent ==
    (Loaded /\ Compiles(last.s) /\ last.i < Len(last.s)) =>
        /\ last.ok
        /\ last.ret = 0
        /\ last.err.nil
        /\ \A k \in 1..Len(last.a) : Len(last.a[k]) \in 1..last.i
        /\ Concatenate(last.a) = last.s
        /\ Top(last) = Contiguous(last.s).value

C8_LoadStep == last'.op = "Load" /\ last.op # "Load"

\* C8: a Load changes nothing but the top of the stack: the globals, the
\* status of the thread and the slots 1..old top stay as they were; when it
\* returns nil it has pushed exactly one value, a function; and the globals
\* change only at a Call or a Resume.
C8_LoadNeverExecutes ==
    [][/\ C8_LoadStep =>
            /\ globals' = globals
            /\ Status(Main)' = Status(Main)
            /\ chain' = chain
            /\ SubSeq(Stk(Main)', 1, Gettop(Main)) = Stk(Main)
            /\ \A t \in ThreadIds \ {Main} : threads'[t] = threads[t]
            /\ (last'.ok /\ last'.err.nil) =>
                    /\ Gettop(Main)' = Gettop(Main) + 1
                    /\ Stk(Main)'[Gettop(Main)'].t = Tfunction
       /\ globals' # globals => last'.op \in {"CallChunk", "Resume"}]_vars

C8_Witness ==
    /\ last.op = "Load"
    /\ last.ok
    /\ last.err.nil
    /\ last.s = <<Ch.a, Ch.eq, Ch.one>>
    /\ last.i = 2
    /\ Len(last.a) = 2
    /\ Len(last.pre) = 1
    /\ globals["a"] = NumV(1)

\* C9 (as claimed): goreadchunk gives 0 when Read reports an error and
\* otherwise between 0 and buflen bytes, so Load on a source that delivers
\* the bytes p and then fails gives what Load on the source p gives.
C9_ReadFailureIsEndOfInput ==
    (Loaded /\ last.k = "failing") =>
        /\ last.ok
        /\ \A k \in 1..Len(last.a) : Len(last.a[k]) \in 1..last.i
        /\ last.ret = Contiguous(last.s).status
        /\ last.err = err2msg(Contiguous(last.s).status)
        /\ Stk(last.th) = Append(last.pre, Contiguous(last.s).value)

C4_StatusIsLastResumeOutcome ==
    /\ \A t \in ThreadIds : (threads[t].live /\ threads[t].res # -1) =>
          /\ Status(t) = Yield <=> threads[t].res = Yield
          /\ threads[t].res > Yield => Status(t) = threads[t].res
          /\ threads[t].res = 0 => Status(t) = 0
    /\ last.op \notin {"Resume", "Yield", "ReturnBody", "none"} =>
          Status(last.th) = last.st

\* the operation recorded in last ended the body of a coroutine with an
\* error: the Resume that ran it returns the code
EndedInError ==
    /\ last.op \in {"Call", "Yield", "Createtable"}
    /\ ~last.ok
    /\ ~panicked

\* C4 (amended): the status is Yield exactly for a suspended thread and an
\* error code exactly for a thread whose body ended with that error, and
\* is 0 otherwise; a Resume that returns Yield, 0 or the error of the body
\* leaves that outcome as the status; a Resume that is rejected returns
\* Errrun and leaves the status as it was; and so does every operation
\* that is not a Resume and does not end or suspend the body.
C4_StatusTracksAcceptedResume ==
    /\ \A t \in ThreadIds : threads[t].live =>
          /\ Status(t) = Yield <=> threads[t].life = "suspended"
          /\ Status(t) > Yield <=> threads[t].life = "errored"
          /\ Status(t) \in {0, Yield, Errrun, Errsyntax, Errmem, Errerr}
    /\ (last.op = "Resume" /\ last.k = "rejected") =>
          /\ last.ret = Errrun
          /\ Status(last.th) = last.st
    /\ (last.op = "Resume" /\ last.k # "rejected" /\ last.ret >= 0) =>
          Status(last.th) = last.ret
    /\ (last.op = "Resume" /\ last.ret < 0) => Status(last.th) = last.st
    /\ (last.op = "Yield" /\ last.ok) => Status(last.th) = Yield
    /\ last.op = "ReturnBody" => Status(last.th) = 0
    /\ EndedInError =>
          /\ Status(last.th) = last.ret
          /\ threads[last.th].res = last.ret
    /\ (last.op \notin {"Resume", "Yield", "ReturnBody", "none"} /\ ~EndedInError) =>
          Status(last.th) = last.st

C4_Witness ==
    /\ last.op = "Resume"
    /\ last.k = "rejected"
    /\ last.st = Errmem
    /\ last.ret = Errrun
    /\ Status(last.th) = Errmem

\* C5 (as claimed): no error of the VM leaves it as an uncontrolled unwind:
\* an error raised by an operation ends the Resume around it, which
\* returns the error code with the message on top of the stack.
C5_NoUncontrolledUnwind ==
    /\ ~panicked
    /\ (last.op \in {"Call", "Yield", "Createtable", "Resume"} /\ ~last.ok) =>
          /\ threads[last.th].res = last.ret
          /\ last.ret > Yield
          /\ Gettop(last.th) > 0
          /\ Top(last).t = Tstring

(* ------------------------------- calls -------------------------------- *)
\* the frame under the running frame of thread t
Caller(t) == threads[t].frames[Depth(t) - 1]

\* the number of results a call asking for nresults gets from r of them
Results(r, nresults) == IF nresults = Multret THEN r ELSE nresults

\* the call protocol, at the entry of a host function, at its return and
\* at the call of a chunk
C10_CallAndReturn ==
    /\ (last.op = "Call" /\ last.ok) =>
          /\ Stk(last.th) = LastN(last.pre, last.i)
          /\ Gettop(last.th) = last.i
          /\ Caller(last.th).stack = SubSeq(last.pre, 1, Len(last.pre) - last.i - 1)
          /\ Cur(last.th).nres = last.j
    /\ last.op = "Return" =>
          /\ Gettop(last.th) = Len(last.s) + Results(last.i, last.j)
          /\ SubSeq(Stk(last.th), 1, Len(last.s)) = last.s
          /\ \A k \in 1..Results(last.i, last.j) :
                Stk(last.th)[Len(last.s) + k] =
                    IF k <= last.i THEN last.pre[Len(last.pre) - last.i + k] ELSE NilV
    /\ last.op = "CallChunk" =>
          /\ Gettop(last.th) = Len(last.pre) - last.i - 1 + Results(0, last.j)
          /\ SubSeq(Stk(last.th), 1, Len(last.pre) - last.i - 1)
                = SubSeq(last.pre, 1, Len(last.pre) - last.i - 1)

\* while a host function runs, the frames under it stay as they are
C10_CallerUntouched ==
    \A t \in ThreadIds :
        Depth(t)' = Depth(t) =>
            \A k \in 1..Depth(t) - 1 : threads'[t].frames[k] = threads[t].frames[k]

\* C10: Call(nargs, nresults) takes the function and its nargs arguments
\* off the stack and leaves the slots under them as they are; a host
\* function starts with exactly the arguments, in order, as its stack; of
\* what it leaves, the top r values it reports come back, in order, cut or
\* filled with nil to nresults (all r with Multret), on top of the slots
\* that were under the function.
C10_CallProtocol == [](C10_CallAndReturn) /\ [][C10_CallerUntouched]_vars

C10_Witness ==
    /\ last.op = "Return"
    /\ last.i = 2
    /\ last.j = Multret
    /\ last.pre = <<NumV(1), NumV(0), NumV(1)>>
    /\ last.s = <<NumV(0)>>
    /\ Depth(last.th) > 1

(* ------------------------- claims: the queries ------------------------- *)
TypeTests ==
    {"Isfunction", "Istable", "Islightuserdata", "Isgofunction", "Isnil",
     "Isboolean", "Isthread"}

\* the index of the recorded call names no element of the stack it was given
InvalidIndex == AbsIndex(Len(last.pre), last.i) = 0

\* C11 (as claimed): the type tests are total.  For an index that names no
\* element of the stack (0, a positive or a negative index out of the
\* stack) Type returns Tnone, Isnone and Isnoneornil return true and every
\* other test returns false; no test raises an error or changes the stack.
C11_TypeTestsAreTotal ==
    /\ (last.op = "Type" /\ InvalidIndex) => last.ret = Tnone
    /\ (last.op \in {"Isnone", "Isnoneornil"} /\ InvalidIndex) => last.ret = 1
    /\ (last.op \in TypeTests /\ InvalidIndex) => last.ret = 0
    /\ last.op \in TypeTests \cup {"Type", "Isnone", "Isnoneornil"} =>
          /\ ~panicked
          /\ Stk(last.th) = last.pre

\* the value the recorded call was given at its index: none for an index
\* that names no element
Arg ==
    IF InvalidIndex THEN NoneV ELSE last.pre[AbsIndex(Len(last.pre), last.i)]

\* C12 (as claimed): the conversions never abort and return the zero value
\* on failure: Tonumber and Tointeger return 0 unless the value is a number
\* or a string that denotes one, Toboolean returns false exactly for nil,
\* false and an index that names no element, Tostring returns "" unless
\* the value is a string or a number, Tothread returns nil unless the
\* value is a thread.
C12_ConversionsAreTotal ==
    /\ last.op \in {"Tonumber", "Tointeger", "Toboolean", "Tostring", "Tothread"} =>
          ~panicked
    /\ (last.op \in {"Tonumber", "Tointeger"}
          /\ Arg.t # Tnumber /\ ~(Arg.t = Tstring /\ IsNumeral(Arg.v))) => last.ret = 0
    /\ last.op = "Toboolean" =>
          (last.ret = 0 <=> Arg \in {NoneV, NilV, BoolV(FALSE)})
    /\ (last.op = "Tostring" /\ Arg.t \notin {Tstring, Tnumber}) => last.s = <<>>
    /\ (last.op = "Tothread" /\ Arg.t # Tthread) => last.a = <<>>

Queries ==
    (TypeTests \ {"Islightuserdata"})
        \cup {"Type", "Isnone", "Isnoneornil", "Toboolean", "Tonumber",
              "Tointeger", "Tostring", "Objlen", "Rawequal"}

Converts(i) ==
    /\ last.op \in {"Tostring", "Objlen"}
    /\ last.ok
    /\ i = AbsIndex(Len(last.pre), last.i)
    /\ last.pre[i].t = Tnumber

C14_ClosedStateIsInert ==
    /\ last.k # "freed"
    /\ Closed => ~panicked

(* ----------------------- claims: between threads ----------------------- *)
\* C15: to.Xmove(from, n) on two distinct threads, with 0 <= n <=
\* from.Gettop(), removes the top n values of from and appends them to the
\* stack of to in the same relative order: from is n lower, to is n
\* higher, and the rest of both stacks, every other thread and the globals
\* are unchanged.
C15_XmoveMovesTopN ==
    [][LET to == last'.th
           from == last'.j
           n == last'.i
           after(u) == threads'[u].frames[Len(threads'[u].frames)].stack
       IN (last'.op = "Xmove" /\ from # to) =>
             /\ n \in 0..Gettop(from)
             /\ after(from) = DropN(Stk(from), n)
             /\ after(to) = Stk(to) \o LastN(Stk(from), n)
             /\ Len(after(from)) = Gettop(from) - n
             /\ Len(after(to)) = Gettop(to) + n
             /\ \A u \in ThreadIds \ {from, to} : threads'[u] = threads[u]
             /\ UNCHANGED <<chain, globals, ntables, panicked>>]_vars

C15_Witness ==
    /\ last.op = "Xmove"
    /\ last.j # last.th
    /\ last.i = 2
    /\ last.a = <<NumV(1), NumV(2)>>
    /\ Stk(last.th) = <<NumV(1), NumV(2)>>
    /\ Stk(last.j) = <<>>

(* ------------------------- claims: one control ------------------------- *)
\* the threads with a body that was started and has neither ended nor
\* yielded; the innermost of them is the one that is running, the others
\* wait in their Resume
Active == {t \in ThreadIds : threads[t].live /\ ResumeFrame(t) > 0}

PseudoIndices ==
    {Registryindex, Environindex, Globalsindex}
        \cup {Upvalueindex(i) : i \in 1..MaxUpvalues}

\* the Upvalueindex of the recorded call is Globalsindex - i, differs from
\* that of every other i and from the three fixed pseudo-indices
UpvalueindexApart ==
    last.op = "Upvalueindex" =>
        /\ last.ret = Globalsindex - last.i
        /\ \A j \in 1..MaxUpvalues : j # last.i => Upvalueindex(j) # last.ret
        /\ last.ret \notin {Registryindex, Environindex, Globalsindex}

C20_HostFunctionsRoundTrip ==
    /\ last.op = "Pushgofunction" => Stk(last.th) = Append(last.pre, GoFnV)
    /\ (last.op = "Togofunction" /\ Arg # GoFnV) => last.ret = 0

(* ---------------------------- claims: settop --------------------------- *)
\* the stack of the recorded call now has top k: the slots up to the old
\* top are as they were, those above it are nil
HasTop(k) ==
    /\ Gettop(last.th) = k
    /\ \A i \in 1..k :
          Stk(last.th)[i] = IF i <= Len(last.pre) THEN last.pre[i] ELSE NilV

C22_ErrorReflectsStatus ==
    /\ (last.op = "Load" /\ last.ok) =>
          /\ last.err.nil <=> last.ret = 0
          /\ last.ret # 0 =>
                /\ last.ret \in DOMAIN errmsgs
                /\ last.err.msg = errmsgs[last.ret]
    /\ last.op = "err2msg" =>
          /\ last.err.nil <=> last.i = 0
          /\ last.i \in DOMAIN errmsgs => last.err.msg = errmsgs[last.i]
    /\ DOMAIN errmsgs = {Errrun, Errsyntax, Errmem, Errerr}
    /\ \A x \in DOMAIN errmsgs :
          /\ errmsgs[x] # ""
          /\ \A y \in DOMAIN errmsgs : x # y => errmsgs[x] # errmsgs[y]

C22_Witness ==
    /\ last.op = "Load"
    /\ last.ok
    /\ last.k = "bytes"
    /\ last.ret = Errmem
    /\ last.err = Errorf("out of memory")

(* -------------------------- claims: traversal -------------------------- *)
\* the names of the globals that hold a value: the pairs of the table
Held == {name \in GlobalNames : globals[name] # NilV}

\* the rank of a key in the walk: nil comes before every field
Rank(key) == IF key = NilV THEN 0 ELSE key.v[1]

\* the stack of the host under the key of the loop
Base(stack) ==
    IF \E i \in 1..Len(stack) : stack[i].t \in {Tnil, Tstring}
    THEN SubSeq(stack, 1,
             (CHOOSE i \in 1..Len(stack) :
                 /\ stack[i].t \in {Tnil, Tstring}
                 /\ \A j \in 1..i - 1 : stack[j].t \notin {Tnil, Tstring}) - 1)
    ELSE stack

\* C23: Next pops the key on top and either pushes the next key and its
\* value and returns non-zero (the stack is one higher) or, after the last
\* pair, pushes nothing and returns 0 (one lower).  The documented loop
\* (Pushnil, then Pop(1) while Next returns non-zero) on a table that is
\* not changed meanwhile gets each pair that follows the key in the walk,
\* none twice and none left out, comes to an end, and ends with the stack
\* it started with.
C23_TraversalIsExact ==
    /\ [][LET key == Stk(Main)[Gettop(Main)]
              later == {name \in Held : Ch[name] > Rank(key)}
              after == threads'[Main].frames[Len(threads'[Main].frames)].stack
          IN /\ (last'.op = "Next" /\ last'.ok) =>
                   /\ globals' = globals
                   /\ IF later = {}
                      THEN /\ last'.ret = 0
                           /\ after = DropN(Stk(Main), 1)
                      ELSE /\ last'.ret # 0
                           /\ Len(after) = Gettop(Main) + 1
                           /\ \E name \in later :
                                 /\ \A other \in later : Ch[name] <= Ch[other]
                                 /\ after = DropN(Stk(Main), 1)
                                               \o <<KeyOf(name), globals[name]>>
             /\ last'.op \in {"Pushnil", "Next", "Pop"} =>
                   Base(after) = Base(Stk(Main))]_vars
    /\ []((last.op = "Next" /\ last.ok /\ last.ret = 0) =>
             /\ ~InLoop
             /\ Stk(Main) = Base(last.pre)
             /\ Gettop(Main) = Len(last.pre) - 1)
    /\ (InLoop ~> ~InLoop)

C23_Witness ==
    /\ last.op = "Next"
    /\ last.ok
    /\ last.ret = 0
    /\ last.pre = <<NumV(1), KeyOf("b")>>
    /\ Held = {"a", "b"}
    /\ Stk(Main) = <<NumV(1)>>

=============================================================================
